---- MODULE Spec2Model ----
(***************************************************************************)
(* boot-crawler: the crawl traversal engine of src/crawl.js (normalizeURL, *)
(* getURLsFromHTML, fetchHTML, crawlPage) and the report sorter of         *)
(* src/report.js (sortPages).                                              *)
(*                                                                         *)
(* A JavaScript string is modelled as a sequence of one-character strings, *)
(* so that parsing, slicing, lower-casing and concatenation are computed   *)
(* character by character.                                                 *)
(*                                                                         *)
(* Scope of the URL parser: the inputs carry no userinfo, no dot segments, *)
(* no percent escapes, no IP literals and no whitespace; http and https    *)
(* are the special schemes that occur.  The visit table is a plain object  *)
(* in the source; no key of the modelled inputs is "__proto__", the one    *)
(* property name an assignment cannot create on a plain object.            *)
(***************************************************************************)
EXTENDS Integers, Sequences, FiniteSets, TLC

(***************************************************************************)
(* Text                                                                    *)
(***************************************************************************)
\* const x = v; F(x): v is evaluated once, and F gets its value.
Let(v, F(_)) == CHOOSE r \in {F(x) : x \in {v}} : TRUE

UPPER == <<"A","B","C","D","E","F","G","H","I","J","K","L","M",
           "N","O","P","Q","R","S","T","U","V","W","X","Y","Z">>
LOWER == <<"a","b","c","d","e","f","g","h","i","j","k","l","m",
           "n","o","p","q","r","s","t","u","v","w","x","y","z">>
DIGITS == {"0","1","2","3","4","5","6","7","8","9"}

Range(s) == {s[i] : i \in 1..Len(s)}

IsUpper(c) == \E i \in 1..Len(UPPER) : UPPER[i] = c

IsAlpha(c) == c \in Range(UPPER) \cup Range(LOWER)

LowerChar(c) ==
  IF IsUpper(c) THEN LOWER[CHOOSE i \in 1..Len(UPPER) : UPPER[i] = c] ELSE c

\* String.prototype.toLowerCase
toLowerCase(s) == Let(s, LAMBDA str : [i \in 1..Len(str) |-> LowerChar(str[i])])

\* String.prototype.startsWith / endsWith / includes
startsWith(s, p) == Len(s) >= Len(p) /\ SubSeq(s, 1, Len(p)) = p

endsWith(s, p) == Len(s) >= Len(p) /\ SubSeq(s, Len(s) - Len(p) + 1, Len(s)) = p

includes(s, p) == \E i \in 0..(Len(s) - Len(p)) : SubSeq(s, i + 1, i + Len(p)) = p

\* s.slice(n) and s.slice(0, -1)
sliceFrom(s, n) == SubSeq(s, n + 1, Len(s))

sliceDropLast(s) == SubSeq(s, 1, Len(s) - 1)

\* Index of the first character of s at or after `from` that is in `chars`;
\* Len(s) + 1 when there is none.
FirstIdx(s, chars, from) ==
  IF \E i \in from..Len(s) : s[i] \in chars
  THEN CHOOSE i \in from..Len(s) :
         s[i] \in chars /\ \A j \in from..(i - 1) : s[j] \notin chars
  ELSE Len(s) + 1

\* Index of the last occurrence of c in s; 0 when there is none.
LastIdx(s, c) ==
  IF \E i \in 1..Len(s) : s[i] = c
  THEN CHOOSE i \in 1..Len(s) : s[i] = c /\ \A j \in (i + 1)..Len(s) : s[j] # c
  ELSE 0

(***************************************************************************)
(* The URL class: new URL(s), new URL(s, base), .href, .hostname,          *)
(* .pathname.  A failed parse (the TypeError the constructor throws) is    *)
(* the record Invalid.                                                     *)
(***************************************************************************)
S_HTTP == <<"h","t","t","p">>
S_HTTPS == <<"h","t","t","p","s">>
S_WWW == <<"w","w","w",".">>
S_SLASH == <<"/">>
S_SLASH2 == <<"/","/">>
S_COLON == <<":">>

SpecialSchemes == {S_HTTP, S_HTTPS}

SchemeChars == Range(UPPER) \cup Range(LOWER) \cup DIGITS \cup {"+", "-", "."}

ForbiddenHostChars == {" ", "#", "/", ":", "<", ">", "?", "@", "[", "]", "^", "|"}

Invalid ==
  [ok |-> FALSE, scheme |-> <<>>, hasHost |-> FALSE, host |-> <<>>,
   port |-> <<>>, path |-> <<>>, query |-> <<>>, fragment |-> <<>>]

\* Position of the ":" that ends a leading scheme; 0 when s starts with none.
SchemeEnd(s) ==
  Let(FirstIdx(s, {":"}, 1), LAMBDA c :
    IF /\ c <= Len(s)
       /\ c > 1
       /\ IsAlpha(s[1])
       /\ \A i \in 1..(c - 1) : s[i] \in SchemeChars
    THEN c
    ELSE 0)

\* s without its leading "/" characters.
SkipSlashes(s) ==
  Let(Range(s) \ {"/"}, LAMBDA others :
    Let(FirstIdx(s, others, 1), LAMBDA n : SubSeq(s, n, Len(s))))

DefaultPort(scheme) ==
  IF scheme = S_HTTP THEN <<"8","0">>
  ELSE IF scheme = S_HTTPS THEN <<"4","4","3">>
  ELSE <<>>

\* Path, query and fragment states: s starts where the path starts.
ParseTail(scheme, hasHost, host, port, s) ==
  Let(s, LAMBDA str :
  Let(FirstIdx(str, {"?", "#"}, 1), LAMBDA q :
  Let(SubSeq(str, 1, q - 1), LAMBDA pathRaw :
  Let(SubSeq(str, q, Len(str)), LAMBDA rest :
  Let(FirstIdx(rest, {"#"}, 1), LAMBDA f :
    [ok       |-> TRUE,
     scheme   |-> scheme,
     hasHost  |-> hasHost,
     host     |-> host,
     port     |-> port,
     path     |-> IF scheme \in SpecialSchemes /\ pathRaw = <<>>
                  THEN S_SLASH ELSE pathRaw,
     query    |-> SubSeq(rest, 1, f - 1),
     fragment |-> SubSeq(rest, f, Len(rest))])))))

\* Authority, host and port states: s starts where the authority starts.
ParseAuthority(scheme, s) ==
  Let(s, LAMBDA str :
  Let(FirstIdx(str, {"/", "?", "#"}, 1), LAMBDA e :
  Let(SubSeq(str, 1, e - 1), LAMBDA auth :
  Let(FirstIdx(auth, {":"}, 1), LAMBDA c :
  Let(SubSeq(auth, 1, c - 1), LAMBDA hostRaw :
  Let(SubSeq(auth, c + 1, Len(auth)), LAMBDA portRaw :
    IF \/ (scheme \in SpecialSchemes /\ hostRaw = <<>>)
       \/ Range(hostRaw) \cap ForbiddenHostChars # {}
       \/ ~(Range(portRaw) \subseteq DIGITS)
    THEN Invalid
    ELSE ParseTail(scheme, TRUE, toLowerCase(hostRaw),
                   IF portRaw = DefaultPort(scheme) THEN <<>> ELSE portRaw,
                   SubSeq(str, e, Len(str)))))))))

\* What follows "scheme:" when the scheme does not send the parser to the
\* relative state.
ParseAbsolute(scheme, rest) ==
  Let(scheme, LAMBDA sch :
  Let(rest, LAMBDA r :
    IF sch \in SpecialSchemes THEN ParseAuthority(sch, SkipSlashes(r))
    ELSE IF startsWith(r, S_SLASH2) THEN ParseAuthority(sch, sliceFrom(r, 2))
    ELSE ParseTail(sch, FALSE, <<>>, <<>>, r)))

\* new URL(s)
ParseURL(s) ==
  Let(s, LAMBDA str :
  Let(SchemeEnd(str), LAMBDA c :
    IF c = 0 THEN Invalid
    ELSE ParseAbsolute(toLowerCase(SubSeq(str, 1, c - 1)), sliceFrom(str, c))))

\* The relative states: r is resolved against the parsed base b.
Relative(base, ref) ==
  Let(base, LAMBDA b :
  Let(ref, LAMBDA r :
  IF ~b.hasHost THEN Invalid
  ELSE IF r = <<>> THEN [b EXCEPT !.fragment = <<>>]
  ELSE IF startsWith(r, S_SLASH2) /\ b.scheme \in SpecialSchemes
       THEN ParseAuthority(b.scheme, SkipSlashes(r))
  ELSE IF startsWith(r, S_SLASH2) THEN ParseAuthority(b.scheme, sliceFrom(r, 2))
  ELSE IF r[1] = "/" THEN ParseTail(b.scheme, TRUE, b.host, b.port, r)
  ELSE IF r[1] = "?"
       THEN [ParseTail(b.scheme, TRUE, b.host, b.port, r) EXCEPT !.path = b.path]
  ELSE IF r[1] = "#" THEN [b EXCEPT !.fragment = r]
  ELSE ParseTail(b.scheme, TRUE, b.host, b.port,
                 SubSeq(b.path, 1, LastIdx(b.path, "/")) \o r)))

\* new URL(ref, base)
ResolveURL(ref, base) ==
  Let(ParseURL(base), LAMBDA b :
  Let(ref, LAMBDA str :
  Let(SchemeEnd(str), LAMBDA c :
  Let(toLowerCase(SubSeq(str, 1, c - 1)), LAMBDA scheme :
  Let(sliceFrom(str, c), LAMBDA rest :
    IF ~b.ok THEN Invalid
    ELSE IF c = 0 THEN Relative(b, str)
    ELSE IF /\ scheme \in SpecialSchemes
            /\ scheme = b.scheme
            /\ ~startsWith(rest, S_SLASH2)
         THEN Relative(b, rest)
    ELSE ParseAbsolute(scheme, rest))))))

\* URL.prototype.hostname, .pathname, .href
hostname(u) == u.host

pathname(u) == u.path

href(u) ==
  u.scheme \o S_COLON
    \o (IF u.hasHost
        THEN S_SLASH2 \o u.host \o (IF u.port = <<>> THEN <<>> ELSE S_COLON \o u.port)
        ELSE <<>>)
    \o u.path \o u.query \o u.fragment

(***************************************************************************)
(* normalizeURL (src/crawl.js)                                             *)
(***************************************************************************)
Threw == [ok |-> FALSE, key |-> <<>>]

\* The variant a query-preserving normalizer would compute.
normalizeURL_keepQuery(url) ==
  Let(ParseURL(url), LAMBDA parsedURL :
    IF ~parsedURL.ok THEN Threw
    ELSE Let(hostname(parsedURL), LAMBDA h :
         Let(pathname(parsedURL), LAMBDA p :
         Let(IF startsWith(h, S_WWW) THEN sliceFrom(h, 4) ELSE h, LAMBDA h2 :
         Let(IF endsWith(p, S_SLASH) THEN sliceDropLast(p) ELSE p, LAMBDA p2 :
           [ok |-> TRUE, key |-> toLowerCase(h2 \o p2 \o parsedURL.query)])))))

\* The variant that forgets the final toLowerCase.
normalizeURL_noLowerCase(url) ==
  Let(ParseURL(url), LAMBDA parsedURL :
    IF ~parsedURL.ok THEN Threw
    ELSE Let(hostname(parsedURL), LAMBDA h :
         Let(pathname(parsedURL), LAMBDA p :
         Let(IF startsWith(h, S_WWW) THEN sliceFrom(h, 4) ELSE h, LAMBDA h2 :
         Let(IF endsWith(p, S_SLASH) THEN sliceDropLast(p) ELSE p, LAMBDA p2 :
           [ok |-> TRUE, key |-> h2 \o p2])))))

\* The variant that slices the last character of the path off without
\* testing that it is a slash.
normalizeURL_alwaysSlice(url) ==
  Let(ParseURL(url), LAMBDA parsedURL :
    IF ~parsedURL.ok THEN Threw
    ELSE Let(hostname(parsedURL), LAMBDA h :
         Let(pathname(parsedURL), LAMBDA p :
         Let(IF startsWith(h, S_WWW) THEN sliceFrom(h, 4) ELSE h, LAMBDA h2 :
         Let(sliceDropLast(p), LAMBDA p2 :
           [ok |-> TRUE, key |-> toLowerCase(h2 \o p2)])))))

normalizeURL(url) ==
  Let(ParseURL(url), LAMBDA parsedURL :
    IF ~parsedURL.ok THEN Threw
    ELSE Let(hostname(parsedURL), LAMBDA h :
         Let(pathname(parsedURL), LAMBDA p :
         Let(IF startsWith(h, S_WWW) THEN sliceFrom(h, 4) ELSE h, LAMBDA h2 :
         Let(IF endsWith(p, S_SLASH) THEN sliceDropLast(p) ELSE p, LAMBDA p2 :
           [ok |-> TRUE, key |-> toLowerCase(h2 \o p2)])))))

(***************************************************************************)
(* getURLsFromHTML (src/crawl.js).  The parsed document is the sequence of *)
(* its elements in document order; an element is an anchor or not, and     *)
(* carries an href attribute or not.                                       *)
(***************************************************************************)
Anchor(h) == [tag |-> "a", hasHref |-> TRUE, href |-> h]

AnchorNoHref == [tag |-> "a", hasHref |-> FALSE, href |-> <<>>]

Paragraph == [tag |-> "p", hasHref |-> FALSE, href |-> <<>>]

\* dom.window.document.querySelectorAll("a[href]")
querySelectorAll_a_href(html) ==
  LET Match(e) == e.tag = "a" /\ e.hasHref
  IN SelectSeq(html, Match)

\* The variant without the try/catch around each anchor: one href that
\* does not resolve and nothing is returned.
getURLsFromHTML_allOrNothing(html, base) ==
  LET anchors == querySelectorAll_a_href(html)
  IN IF \E i \in 1..Len(anchors) : ~ResolveURL(anchors[i].href, base).ok
     THEN <<>>
     ELSE [i \in 1..Len(anchors) |-> href(ResolveURL(anchors[i].href, base))]

getURLsFromHTML(html, base) ==
  LET anchors == querySelectorAll_a_href(html)
      mapped  == [i \in 1..Len(anchors) |->
                    LET u == ResolveURL(anchors[i].href, base)
                    IN IF u.ok THEN [null |-> FALSE, url |-> href(u)]
                       ELSE [null |-> TRUE, url |-> <<>>]]
      NotNull(m) == ~m.null
      kept    == SelectSeq(mapped, NotNull)
  IN [i \in 1..Len(kept) |-> kept[i].url]

(***************************************************************************)
(* fetchHTML (src/crawl.js).  What the network does for one request is a   *)
(* record: whether fetch() resolved, the status, the content-type header   *)
(* (absent or a string), whether reading the body succeeds, and the body.  *)
(***************************************************************************)
S_TEXT_HTML == <<"t","e","x","t","/","h","t","m","l">>

\* What a settled fetchHTML is: resolved with the text (ok), or rejected
\* with an error; status is the status the error message carries, bodyRead
\* tells whether res.text() was called.
Rejected(err, status, bodyRead) ==
  [ok |-> FALSE, err |-> err, status |-> status, bodyRead |-> bodyRead, html |-> <<>>]

Resolved(html) ==
  [ok |-> TRUE, err |-> "", status |-> 0, bodyRead |-> TRUE, html |-> html]

\* The variant whose status test is off by one: res.status > 400.
fetchHTML_above400(res) ==
  IF ~res.netOk THEN Rejected("Got Network error", 0, FALSE)
  ELSE IF res.status > 400 THEN Rejected("Got HTTP error", res.status, FALSE)
  ELSE IF ~res.hasContentType \/ ~includes(res.contentType, S_TEXT_HTML)
       THEN Rejected("Got non-HTML response", 0, FALSE)
  ELSE IF ~res.bodyOk THEN Rejected("body read rejected", 0, TRUE)
  ELSE Resolved(res.body)

fetchHTML(res) ==
  IF ~res.netOk THEN Rejected("Got Network error", 0, FALSE)
  ELSE IF res.status > 399 THEN Rejected("Got HTTP error", res.status, FALSE)
  ELSE IF ~res.hasContentType \/ ~includes(res.contentType, S_TEXT_HTML)
       THEN Rejected("Got non-HTML response", 0, FALSE)
  ELSE IF ~res.bodyOk THEN Rejected("body read rejected", 0, TRUE)
  ELSE Resolved(res.body)

(***************************************************************************)
(* The visit table: a plain object.  It is the sequence of its entries     *)
(* [url, count] in insertion order, which is the order Object.entries      *)
(* lists them in.                                                          *)
(***************************************************************************)
Keys(pgs) == {pgs[i].url : i \in 1..Len(pgs)}

IndexOfKey(pgs, k) == CHOOSE i \in 1..Len(pgs) : pgs[i].url = k

\* pages[k] when the property exists; 0 stands for undefined, which like 0
\* fails the test "> 0".
Count(pgs, k) == IF k \in Keys(pgs) THEN pgs[IndexOfKey(pgs, k)].count ELSE 0

\* An assignment made on a fresh object instead of the shared one.
Put_onFreshObject(pgs, k, v) == <<[url |-> k, count |-> v]>>

\* pages[k] = v
Put(pgs, k, v) ==
  IF k \in Keys(pgs) THEN [pgs EXCEPT ![IndexOfKey(pgs, k)].count = v]
  ELSE Append(pgs, [url |-> k, count |-> v])

(***************************************************************************)
(* sortPages (src/report.js)                                               *)
(***************************************************************************)
\* The collation order of the characters table keys are made of: keys are
\* lower-cased host and path text.
COLLATION == <<".", "/", "0","1","2","3","4","5","6","7","8","9">> \o LOWER

Rank(c) == CHOOSE i \in 1..Len(COLLATION) : COLLATION[i] = c

\* String.prototype.localeCompare: negative, zero or positive.
RECURSIVE localeCompare(_, _)
localeCompare(a, b) ==
  IF a = <<>> /\ b = <<>> THEN 0
  ELSE IF a = <<>> THEN -1
  ELSE IF b = <<>> THEN 1
  ELSE IF Rank(Head(a)) < Rank(Head(b)) THEN -1
  ELSE IF Rank(Head(a)) > Rank(Head(b)) THEN 1
  ELSE localeCompare(Tail(a), Tail(b))

\* A comparator without the tie-break on the key.
comparePages_noTieBreak(pageA, pageB) == pageB.count - pageA.count

\* The comparator handed to Array.prototype.sort.
comparePages(pageA, pageB) ==
  IF pageB.count = pageA.count THEN localeCompare(pageA.url, pageB.url)
  ELSE pageB.count - pageA.count

\* Array.prototype.sort: a stable sort by the comparator.
RECURSIVE InsertStable(_, _)
InsertStable(sorted, x) ==
  IF sorted = <<>> THEN <<x>>
  ELSE IF comparePages(x, Head(sorted)) < 0 THEN <<x>> \o sorted
  ELSE <<Head(sorted)>> \o InsertStable(Tail(sorted), x)

RECURSIVE ArraySort(_)
ArraySort(arr) ==
  IF arr = <<>> THEN <<>>
  ELSE InsertStable(ArraySort(SubSeq(arr, 1, Len(arr) - 1)), arr[Len(arr)])

sortPages(pgs) == ArraySort(pgs)

(***************************************************************************)
(* State                                                                   *)
(***************************************************************************)
VARIABLES
  baseURL,   \* crawlPage's baseURL: the seed of the run
  pages,     \* the visit table every call of the run shares
  stack,     \* the pending calls of crawlPage, the running one last
  status,    \* "running", "returned" (the promise resolved), "threw"
  log,       \* history: what each step of the run did, in order
  nIn,       \* normalizer run: the parts the input URL is built from
  nOut,      \* normalizer run: normalizeURL of the input
  nOut2,     \* normalizer run: normalizeURL of that result's key
  nOut3,     \* normalizer run: normalizeURL of "http://" followed by the key
  sPages,    \* sorter run: the table handed to sortPages
  sSorted,   \* sorter run: what sortPages returned
  fRes,      \* fetcher run: what the network answers to fetch(url)
  fOut,      \* fetcher run: how fetchHTML settled
  xHtml,     \* extractor run: the document handed to getURLsFromHTML
  xBase,     \* extractor run: the baseURL handed to it
  xOut       \* extractor run: what it returned

crawlVars == <<baseURL, pages, stack, status, log>>
normVars == <<nIn, nOut, nOut2, nOut3>>
sortVars == <<sPages, sSorted>>
fetchVars == <<fRes, fOut>>
extractVars == <<xHtml, xBase, xOut>>
vars == <<baseURL, pages, stack, status, log, nIn, nOut, nOut2, nOut3, sPages, sSorted,
          fRes, fOut, xHtml, xBase, xOut>>

NotRun == [ran |-> FALSE, ok |-> FALSE, key |-> <<>>]
NoParts == [scheme |-> <<>>, www |-> <<>>, nWww |-> 0, host |-> <<>>, path |-> <<>>,
            nSlash |-> 0, query |-> <<>>]
NotSorted == [done |-> FALSE, out |-> <<>>]

\* The values the variables of the other runs keep while one run is checked.
CrawlIdle ==
  /\ baseURL = <<>>
  /\ pages = <<>>
  /\ stack = <<>>
  /\ status = "idle"
  /\ log = <<>>

NormIdle == nIn = NoParts /\ nOut = NotRun /\ nOut2 = NotRun /\ nOut3 = NotRun

SortIdle == sPages = <<>> /\ sSorted = NotSorted

NoResponse ==
  [netOk |-> FALSE, status |-> 0, hasContentType |-> FALSE, contentType |-> <<>>,
   bodyOk |-> FALSE, body |-> <<>>]
NotFetched ==
  [ran |-> FALSE, ok |-> FALSE, err |-> "", status |-> 0, bodyRead |-> FALSE, html |-> <<>>]

FetchIdle == fRes = NoResponse /\ fOut = NotFetched

NotExtracted == [done |-> FALSE, urls |-> <<>>]

ExtractIdle == xHtml = <<>> /\ xBase = <<>> /\ xOut = NotExtracted

(***************************************************************************)
(* The web a crawl runs against: seeds, href attribute values, documents   *)
(* and responses.                                                          *)
(***************************************************************************)
CT_HTML == <<"t","e","x","t","/","h","t","m","l",";"," ","c","h","a","r","s","e","t","=","u","t","f","-","8">>
CT_PDF == <<"a","p","p","l","i","c","a","t","i","o","n","/","p","d","f">>
SEED_PLAIN == <<"h","t","t","p",":","/","/","a",".","i","o">>
SEED_WWW == <<"h","t","t","p","s",":","/","/","w","w","w",".","a",".","i","o","/">>
SEED_MALFORMED == <<"a",".","i","o">>
H_A == <<"/","a">>
H_B == <<"b">>
H_A_VARIANT == <<"h","t","t","p","s",":","/","/","A",".","i","o","/","a","/">>
H_SEED == <<"h","t","t","p",":","/","/","a",".","i","o","/">>
H_WWW_A == <<"h","t","t","p",":","/","/","w","w","w",".","a",".","i","o","/","a">>
H_OFFSITE == <<"h","t","t","p",":","/","/","b",".","i","o","/">>
H_UNRESOLVABLE == <<"h","t","t","p",":","/","/">>
H_A_QUERY == <<"/","a","?","q","=","1">>
H_MAILTO == <<"m","a","i","l","t","o",":","m","e">>

Seeds == {SEED_PLAIN, SEED_WWW, SEED_MALFORMED}

D_EMPTY == <<>>
D_A_B == <<Anchor(H_A), Paragraph, Anchor(H_B)>>
D_B == <<Anchor(H_B)>>
D_BACK == <<Anchor(H_SEED), Anchor(H_A)>>
D_VARIANTS == <<Anchor(H_A_VARIANT), Anchor(H_WWW_A), Anchor(H_OFFSITE), Anchor(H_A)>>
D_BROKEN == <<Anchor(H_UNRESOLVABLE), AnchorNoHref, Anchor(H_A_QUERY), Anchor(H_MAILTO)>>

Docs == {D_EMPTY, D_A_B, D_B, D_BACK, D_VARIANTS, D_BROKEN}

NetworkFailure ==
  [netOk |-> FALSE, status |-> 0, hasContentType |-> FALSE, contentType |-> <<>>,
   bodyOk |-> FALSE, body |-> <<>>]

Responses ==
  {NetworkFailure} \cup
  [netOk : {TRUE}, status : {200, 404}, hasContentType : {TRUE},
   contentType : {CT_HTML, CT_PDF}, bodyOk : BOOLEAN, body : Docs] \cup
  [netOk : {TRUE}, status : {200}, hasContentType : {FALSE},
   contentType : {<<>>}, bodyOk : {TRUE}, body : Docs]

\* new URL(u) and normalizeURL(u) as crawlPage calls them.
new_URL(u) == ParseURL(u)

\* A table keyed by the URL text as met, not normalized.
normalized_asMet(u) == [ok |-> ParseURL(u).ok, key |-> u]

normalized(u) == normalizeURL(u)

(***************************************************************************)
(* crawlPage (src/crawl.js): one frame per call.  A frame's pc is "enter"  *)
(* (called, nothing done yet), "fetch" (the key is in the table, fetchHTML *)
(* not yet called), "await" (the fetch is in flight) or "loop" (iterating  *)
(* over nextURLs; i is the next index).                                    *)
(***************************************************************************)
Frame(url) == [currentURL |-> url, pc |-> "enter", nextURLs |-> <<>>, i |-> 0]

Top == stack[Len(stack)]

\* A step of the run, as the log keeps it: what happened, the call's URL, its
\* key, and for a successful fetch the document and the links extracted.
Event(kind, url, key, html, links) ==
  [kind |-> kind, url |-> url, key |-> key, html |-> html, links |-> links]

\* A host test made on the normalized host, "www." folded away.
SameHost_folded(currentURL, base) ==
  LET Fold(h) == IF startsWith(h, S_WWW) THEN sliceFrom(h, 4) ELSE h
  IN Fold(hostname(new_URL(currentURL))) = Fold(hostname(new_URL(base)))

\* A crawlPage without the offsite check.
SameHost_always(currentURL, base) == TRUE

\* currentURLObj.hostname !== baseURLObj.hostname, negated
SameHost(currentURL, base) ==
  hostname(new_URL(currentURL)) = hostname(new_URL(base))

\* The test a table without deduplication would make.
Visited_never(pgs, key) == FALSE

\* pages[normalizedURL] > 0
Visited(pgs, key) == Count(pgs, key) > 0

\* A visited branch that sets the count back to 1.
Increment_reset(pgs, key) == Put(pgs, key, 1)

\* pages[normalizedURL]++
Increment(pgs, key) == Put(pgs, key, Count(pgs, key) + 1)

\* A table that starts a new page's count at 0.
InsertFirst_zero(pgs, key) == Put(pgs, key, 0)

\* A crawlPage that leaves the insertion for after the fetch.
InsertFirst_deferred(pgs, key) == pgs

\* pages[normalizedURL] = 1
InsertFirst(pgs, key) == Put(pgs, key, 1)

\* `return pages` of the running call: its caller resumes, or the run ends.
Returned(ev) ==
  /\ stack' = SubSeq(stack, 1, Len(stack) - 1)
  /\ status' = IF Len(stack) = 1 THEN "returned" ELSE status
  /\ log' = Append(log, ev)

\* new URL(currentURL), new URL(baseURL) or normalizeURL(currentURL) throws:
\* no caller catches it, the whole run rejects.
Throw ==
  /\ status = "running" /\ Top.pc = "enter"
  /\ \/ ~new_URL(Top.currentURL).ok
     \/ ~new_URL(baseURL).ok
     \/ ~normalized(Top.currentURL).ok
  /\ stack' = <<>>
  /\ status' = "threw"
  /\ log' = Append(log, Event("Throw", Top.currentURL, <<>>, <<>>, <<>>))
  /\ UNCHANGED <<baseURL, pages, normVars, sortVars, fetchVars, extractVars>>

OffsiteSkip ==
  /\ status = "running" /\ Top.pc = "enter"
  /\ new_URL(Top.currentURL).ok /\ new_URL(baseURL).ok
  /\ ~SameHost(Top.currentURL, baseURL)
  /\ Returned(Event("OffsiteSkip", Top.currentURL, <<>>, <<>>, <<>>))
  /\ UNCHANGED <<baseURL, pages, normVars, sortVars, fetchVars, extractVars>>

AlreadyVisited ==
  /\ status = "running" /\ Top.pc = "enter"
  /\ new_URL(Top.currentURL).ok /\ new_URL(baseURL).ok
  /\ SameHost(Top.currentURL, baseURL)
  /\ normalized(Top.currentURL).ok
  /\ LET normalizedURL == normalized(Top.currentURL).key
     IN /\ Visited(pages, normalizedURL)
        /\ pages' = Increment(pages, normalizedURL)
        /\ Returned(Event("AlreadyVisited", Top.currentURL, normalizedURL, <<>>, <<>>))
  /\ UNCHANGED <<baseURL, normVars, sortVars, fetchVars, extractVars>>

InsertNew ==
  /\ status = "running" /\ Top.pc = "enter"
  /\ new_URL(Top.currentURL).ok /\ new_URL(baseURL).ok
  /\ SameHost(Top.currentURL, baseURL)
  /\ normalized(Top.currentURL).ok
  /\ LET normalizedURL == normalized(Top.currentURL).key
     IN /\ ~Visited(pages, normalizedURL)
        /\ pages' = InsertFirst(pages, normalizedURL)
        /\ log' = Append(log, Event("InsertNew", Top.currentURL, normalizedURL, <<>>, <<>>))
  /\ stack' = [stack EXCEPT ![Len(stack)].pc = "fetch"]
  /\ UNCHANGED <<baseURL, status, normVars, sortVars, fetchVars, extractVars>>

\* fetchHTML(currentURL) is called and awaited.
StartFetch ==
  /\ status = "running" /\ Top.pc = "fetch"
  /\ stack' = [stack EXCEPT ![Len(stack)].pc = "await"]
  /\ log' = Append(log, Event("StartFetch", Top.currentURL,
                              normalized(Top.currentURL).key, <<>>, <<>>))
  /\ UNCHANGED <<baseURL, pages, status, normVars, sortVars, fetchVars, extractVars>>

\* A crawlPage without the try/catch around the fetch: the rejection
\* propagates through every caller.
FetchFailure_uncaught ==
  /\ status = "running" /\ Top.pc = "await"
  /\ \E res \in Responses : ~fetchHTML(res).ok
  /\ stack' = <<>>
  /\ status' = "threw"
  /\ log' = Append(log, Event("FetchFailure", Top.currentURL,
                              normalized(Top.currentURL).key, <<>>, <<>>))
  /\ UNCHANGED <<baseURL, pages, normVars, sortVars, fetchVars, extractVars>>

\* A catch block that forgets the page it could not fetch.
FetchFailure_dropsKey ==
  /\ status = "running" /\ Top.pc = "await"
  /\ \E res \in Responses : ~fetchHTML(res).ok
  /\ pages' = SelectSeq(pages, LAMBDA e : e.url # normalized(Top.currentURL).key)
  /\ Returned(Event("FetchFailure", Top.currentURL,
                    normalized(Top.currentURL).key, <<>>, <<>>))
  /\ UNCHANGED <<baseURL, normVars, sortVars, fetchVars, extractVars>>

\* The awaited fetchHTML rejects: caught, logged, `return pages`.
FetchFailure ==
  /\ status = "running" /\ Top.pc = "await"
  /\ \E res \in Responses : ~fetchHTML(res).ok
  /\ Returned(Event("FetchFailure", Top.currentURL,
                    normalized(Top.currentURL).key, <<>>, <<>>))
  /\ UNCHANGED <<baseURL, pages, normVars, sortVars, fetchVars, extractVars>>

\* A crawlPage that resolves a page's links against the page's own URL.
FetchSuccess_pageBase ==
  /\ status = "running" /\ Top.pc = "await"
  /\ \E res \in Responses :
       /\ fetchHTML(res).ok
       /\ LET nextURLs == getURLsFromHTML(fetchHTML(res).html, Top.currentURL)
          IN /\ stack' = [stack EXCEPT ![Len(stack)].pc = "loop",
                                       ![Len(stack)].nextURLs = nextURLs,
                                       ![Len(stack)].i = 1]
             /\ log' = Append(log, Event("FetchSuccess", Top.currentURL,
                                         normalized(Top.currentURL).key,
                                         fetchHTML(res).html, nextURLs))
  /\ UNCHANGED <<baseURL, pages, status, normVars, sortVars, fetchVars, extractVars>>

\* The awaited fetchHTML resolves: the links are extracted against baseURL.
FetchSuccess ==
  /\ status = "running" /\ Top.pc = "await"
  /\ \E res \in Responses :
       /\ fetchHTML(res).ok
       /\ LET nextURLs == getURLsFromHTML(fetchHTML(res).html, baseURL)
          IN /\ stack' = [stack EXCEPT ![Len(stack)].pc = "loop",
                                       ![Len(stack)].nextURLs = nextURLs,
                                       ![Len(stack)].i = 1]
             /\ log' = Append(log, Event("FetchSuccess", Top.currentURL,
                                         normalized(Top.currentURL).key,
                                         fetchHTML(res).html, nextURLs))
  /\ UNCHANGED <<baseURL, pages, status, normVars, sortVars, fetchVars, extractVars>>

\* A loop that walks nextURLs from the last to the first.
Recurse_lastFirst ==
  /\ status = "running" /\ Top.pc = "loop"
  /\ Top.i <= Len(Top.nextURLs)
  /\ stack' = Append([stack EXCEPT ![Len(stack)].i = Top.i + 1],
                     Frame(Top.nextURLs[Len(Top.nextURLs) - Top.i + 1]))
  /\ log' = Append(log, Event("Recurse", Top.nextURLs[Len(Top.nextURLs) - Top.i + 1], <<>>, <<>>, <<>>))
  /\ UNCHANGED <<baseURL, pages, status, normVars, sortVars, fetchVars, extractVars>>

\* pages = await crawlPage(baseURL, nextURL, pages) for the next nextURL.
Recurse ==
  /\ status = "running" /\ Top.pc = "loop"
  /\ Top.i <= Len(Top.nextURLs)
  /\ stack' = Append([stack EXCEPT ![Len(stack)].i = Top.i + 1],
                     Frame(Top.nextURLs[Top.i]))
  /\ log' = Append(log, Event("Recurse", Top.nextURLs[Top.i], <<>>, <<>>, <<>>))
  /\ UNCHANGED <<baseURL, pages, status, normVars, sortVars, fetchVars, extractVars>>

\* The loop is over: `return pages`.
Return ==
  /\ status = "running" /\ Top.pc = "loop"
  /\ Top.i > Len(Top.nextURLs)
  /\ Returned(Event("Return", Top.currentURL,
                    normalized(Top.currentURL).key, <<>>, <<>>))
  /\ UNCHANGED <<baseURL, pages, normVars, sortVars, fetchVars, extractVars>>

\* crawlPage(baseURL): currentURL defaults to baseURL, pages to {}.
Init ==
  /\ baseURL \in Seeds
  /\ pages = <<>>
  /\ stack = <<Frame(baseURL)>>
  /\ status = "running"
  /\ log = <<>>
  /\ NormIdle /\ SortIdle /\ FetchIdle /\ ExtractIdle

Next ==
  \/ Throw
  \/ OffsiteSkip
  \/ AlreadyVisited
  \/ InsertNew
  \/ StartFetch
  \/ FetchFailure
  \/ FetchSuccess
  \/ Recurse
  \/ Return

Spec == Init /\ [][Next]_vars

\* The event loop runs whatever continuation is ready, and every fetch
\* settles: a step that stays possible is eventually taken.
FairSpec == Spec /\ WF_vars(Next)

(***************************************************************************)
(* A run of the normalizer alone: normalizeURL is applied to an input      *)
(* built from parts, then to the key it returned.                          *)
(***************************************************************************)
MaxWww == 2
MaxSlash == 2

N_HTTP == <<"h","t","t","p",":","/","/">>
N_HTTPS == <<"h","t","t","p","s",":","/","/">>
N_WWW_LOWER == <<"w","w","w",".">>
N_WWW_UPPER == <<"W","W","W",".">>
N_HOST_LOWER == <<"e","x","a","m","p","l","e",".","c","o","m">>
N_HOST_MIXED == <<"E","x","a","m","p","l","e",".","c","o","m">>
N_PATH_LOWER == <<"/","p","a","t","h">>
N_PATH_MIXED == <<"/","P","a","t","h">>
N_PATH_P == <<"/","p">>
N_QUERY_1 == <<"?","a","=","1">>
N_QUERY_2 == <<"?","a","=","2">>

RECURSIVE Repeat(_, _)
Repeat(s, n) == IF n = 0 THEN <<>> ELSE s \o Repeat(s, n - 1)

\* The URL text the parts spell.
Compose(p) ==
  p.scheme \o Repeat(p.www, p.nWww) \o p.host \o p.path
    \o Repeat(S_SLASH, p.nSlash) \o p.query

NormParts ==
  {p \in [scheme : {<<>>, N_HTTP, N_HTTPS},
          www    : {N_WWW_LOWER, N_WWW_UPPER},
          nWww   : 0..MaxWww,
          host   : {N_HOST_LOWER, N_HOST_MIXED},
          path   : {<<>>, N_PATH_LOWER, N_PATH_MIXED, N_PATH_P},
          nSlash : 0..MaxSlash,
          query  : {<<>>, N_QUERY_1, N_QUERY_2}] :
     p.nWww = 0 => p.www = N_WWW_LOWER}

Ran(r) == [ran |-> TRUE, ok |-> r.ok, key |-> r.key]

InitNormalize ==
  /\ nIn \in NormParts
  /\ nOut = NotRun
  /\ nOut2 = NotRun
  /\ nOut3 = NotRun
  /\ CrawlIdle /\ SortIdle /\ FetchIdle /\ ExtractIdle

Normalize ==
  /\ nIn # NoParts /\ ~nOut.ran
  /\ nOut' = Ran(normalizeURL(Compose(nIn)))
  /\ UNCHANGED <<nIn, nOut2, nOut3, crawlVars, sortVars, fetchVars, extractVars>>

Renormalize ==
  /\ nOut.ran /\ nOut.ok /\ ~nOut2.ran
  /\ nOut2' = Ran(normalizeURL(nOut.key))
  /\ UNCHANGED <<nIn, nOut, nOut3, crawlVars, sortVars, fetchVars, extractVars>>

RenormalizeWithScheme ==
  /\ nOut.ran /\ nOut.ok /\ ~nOut3.ran
  /\ nOut3' = Ran(normalizeURL(N_HTTP \o nOut.key))
  /\ UNCHANGED <<nIn, nOut, nOut2, crawlVars, sortVars, fetchVars, extractVars>>

NextNormalize == Normalize \/ Renormalize \/ RenormalizeWithScheme

SpecNormalize == InitNormalize /\ [][NextNormalize]_vars

(***************************************************************************)
(* A run of the sorter alone: sortPages is applied to a visit table.       *)
(***************************************************************************)
MaxEntries == 3
MaxCount == 2

K_A == <<"a">>
K_B == <<"b">>
K_A_B == <<"a","/","b">>
K_A_DOT_B == <<"a",".","b">>

SortKeys == {K_A, K_B, K_A_B, K_A_DOT_B}

\* The visit tables: distinct keys in any insertion order, positive counts.
SortTables ==
  UNION {{tbl \in [1..n -> [url : SortKeys, count : 1..MaxCount]] :
            \A i, j \in 1..n : i # j => tbl[i].url # tbl[j].url} :
         n \in 0..MaxEntries}

InitSort ==
  /\ sPages \in SortTables
  /\ sSorted = NotSorted
  /\ CrawlIdle /\ NormIdle /\ FetchIdle /\ ExtractIdle

SortPages ==
  /\ ~sSorted.done
  /\ sSorted' = [done |-> TRUE, out |-> sortPages(sPages)]
  /\ UNCHANGED <<sPages, crawlVars, normVars, fetchVars, extractVars>>

NextSort == SortPages

SpecSort == InitSort /\ [][NextSort]_vars

(***************************************************************************)
(* A run of the fetcher alone: the network answers fetch(url) in one of    *)
(* the ways of FetchResponses, and fetchHTML settles.                      *)
(***************************************************************************)
CT_HTML_PLAIN == S_TEXT_HTML
CT_HTML_UPPER == <<"T","e","x","t","/","H","T","M","L">>

FetchResponses ==
  {NetworkFailure} \cup
  [netOk : {TRUE}, status : {200, 399, 400, 404}, hasContentType : {TRUE},
   contentType : {CT_HTML, CT_HTML_PLAIN, CT_HTML_UPPER, CT_PDF}, bodyOk : BOOLEAN,
   body : {D_EMPTY, D_B}] \cup
  [netOk : {TRUE}, status : {200, 399, 400, 404}, hasContentType : {FALSE},
   contentType : {<<>>}, bodyOk : BOOLEAN, body : {D_EMPTY, D_B}]

InitFetch ==
  /\ fRes \in FetchResponses
  /\ fOut = NotFetched
  /\ CrawlIdle /\ NormIdle /\ SortIdle /\ ExtractIdle

FetchHTML ==
  /\ ~fOut.ran
  /\ fOut' = [ran |-> TRUE] @@ fetchHTML(fRes)
  /\ UNCHANGED <<fRes, crawlVars, normVars, sortVars, extractVars>>

NextFetch == FetchHTML

SpecFetch == InitFetch /\ [][NextFetch]_vars

(***************************************************************************)
(* A run of the link extractor alone: getURLsFromHTML is applied to a      *)
(* document of at most MaxElements elements and a base.                    *)
(***************************************************************************)
MaxElements == 3

BASE_NESTED == <<"h","t","t","p",":","/","/","a",".","i","o","/","x","/","y">>

ExtractBases == {SEED_PLAIN, BASE_NESTED, SEED_MALFORMED}

Elements ==
  {Anchor(H_A), Anchor(H_B), Anchor(H_OFFSITE), Anchor(H_UNRESOLVABLE), Anchor(H_MAILTO),
   AnchorNoHref, Paragraph}

Documents == UNION {[1..n -> Elements] : n \in 0..MaxElements}

InitExtract ==
  /\ xHtml \in Documents
  /\ xBase \in ExtractBases
  /\ xOut = NotExtracted
  /\ CrawlIdle /\ NormIdle /\ SortIdle /\ FetchIdle

GetURLsFromHTML ==
  /\ ~xOut.done
  /\ xOut' = [done |-> TRUE, urls |-> getURLsFromHTML(xHtml, xBase)]
  /\ UNCHANGED <<xHtml, xBase, crawlVars, normVars, sortVars, fetchVars>>

NextExtract == GetURLsFromHTML

SpecExtract == InitExtract /\ [][NextExtract]_vars

(***************************************************************************)
(* Reading the history of a crawl run                                      *)
(***************************************************************************)
\* How many events of the log satisfy P.
NumEvents(P(_)) == Cardinality({i \in 1..Len(log) : P(log[i])})

\* The URLs crawlPage was called with, in call order: the seed, then one
\* per recursive call.
Calls ==
  LET IsRecurse(e) == e.kind = "Recurse"
      rec == SelectSeq(log, IsRecurse)
  IN <<baseURL>> \o [i \in 1..Len(rec) |-> rec[i].url]

\* The running call has not yet acted on its URL.
Pending == status = "running" /\ stack # <<>> /\ Top.pc = "enter"

\* The calls that have acted on their URL.
Processed == IF Pending THEN SubSeq(Calls, 1, Len(Calls) - 1) ELSE Calls

\* u parses and its raw host is the seed's raw host.
OnSite(u) ==
  /\ ParseURL(u).ok /\ ParseURL(baseURL).ok
  /\ ParseURL(u).host = ParseURL(baseURL).host

KeyOf(u) == normalizeURL(u).key

\* The same-host encounters of key k among the calls that have acted.
EncountersOf(k) ==
  Cardinality({i \in 1..Len(Processed) : OnSite(Processed[i]) /\ KeyOf(Processed[i]) = k})

FetchesOf(k) ==
  LET P(e) == e.kind = "StartFetch" /\ e.key = k IN NumEvents(P)

ExpansionsOf(k) ==
  LET P(e) == e.kind = "FetchSuccess" /\ e.key = k IN NumEvents(P)

\* The call that inserted k has not yet called fetchHTML.
AboutToFetch(k) ==
  status = "running" /\ stack # <<>> /\ Top.pc = "fetch" /\ KeyOf(Top.currentURL) = k

(***************************************************************************)
(* C1: each canonical key is fetched exactly once.  The first same-host    *)
(* encounter of a key inserts it with count 1 and issues one fetch; every  *)
(* later encounter adds exactly 1 to its count and causes neither a fetch  *)
(* nor a link expansion.  So at every moment the table holds exactly the   *)
(* encountered keys, each with its number of encounters as count, each     *)
(* fetched once (or about to be) and expanded at most once.                *)
(***************************************************************************)
C1_FetchedOnce ==
  /\ Keys(pages) = {KeyOf(Processed[i]) : i \in {j \in 1..Len(Processed) : OnSite(Processed[j])}}
  /\ \A k \in Keys(pages) :
       /\ Count(pages, k) = EncountersOf(k)
       /\ FetchesOf(k) <= 1
       /\ FetchesOf(k) = 1 \/ AboutToFetch(k)
       /\ ExpansionsOf(k) <= FetchesOf(k)

\* Two different fetched pages each link once to a third page; the run is
\* over, that page was fetched once and has count 2.
C1_Witness ==
  /\ status = "returned"
  /\ \E k \in Keys(pages) :
       /\ Count(pages, k) = 2
       /\ FetchesOf(k) = 1
       /\ \E i, j \in 1..Len(log) :
            /\ i # j
            /\ log[i].kind = "FetchSuccess" /\ log[j].kind = "FetchSuccess"
            /\ log[i].key # k /\ log[j].key # k
            /\ \A n \in {i, j} :
                 Cardinality({m \in 1..Len(log[n].links) :
                                OnSite(log[n].links[m]) /\ KeyOf(log[n].links[m]) = k}) = 1

(***************************************************************************)
(* C2: with a valid seed the run terminates and returns the table, on any  *)
(* link graph (cycles and self-links included) and under any fetch         *)
(* outcomes; and no key's page is ever expanded a second time.             *)
(***************************************************************************)
C2_Terminates ==
  /\ ParseURL(baseURL).ok => <>(status = "returned")
  /\ [](\A k \in Keys(pages) : ExpansionsOf(k) <= 1)

\* The run is over and a cycle was walked: a fetched page other than the
\* seed linked back to the seed's key.
C2_Witness ==
  /\ status = "returned"
  /\ \E i \in 1..Len(log) :
       /\ log[i].kind = "FetchSuccess"
       /\ log[i].key # KeyOf(baseURL)
       /\ \E m \in 1..Len(log[i].links) :
            OnSite(log[i].links[m]) /\ KeyOf(log[i].links[m]) = KeyOf(baseURL)

(***************************************************************************)
(* C3: at the end of a run the count of every key, the seed's included,    *)
(* equals the number of anchors on successfully fetched pages that resolve *)
(* to a same-host URL normalizing to that key.                             *)
(***************************************************************************)
\* The anchors found on successfully fetched pages: <<i, m>> is link m of
\* the document event i of the log extracted.
LinkOccurrences ==
  UNION {{<<i, m>> : m \in 1..Len(log[i].links)} : i \in 1..Len(log)}

IncomingOf(k) ==
  Cardinality({o \in LinkOccurrences :
                 /\ OnSite(log[o[1]].links[o[2]])
                 /\ KeyOf(log[o[1]].links[o[2]]) = k})

C3_CountsAreIncomingLinks ==
  status = "returned" => \A k \in Keys(pages) : Count(pages, k) = IncomingOf(k)

(***************************************************************************)
(* C4: in every state of a run, every key of the table comes from          *)
(* normalizing URLs whose raw host is the seed's: each insertion and each  *)
(* increment of a key was made for such a URL, and they account for the    *)
(* whole count.                                                            *)
(***************************************************************************)
TouchesOf(k) ==
  {i \in 1..Len(log) : log[i].kind \in {"InsertNew", "AlreadyVisited"} /\ log[i].key = k}

C4_OnlySameHostKeys ==
  \A k \in Keys(pages) :
    /\ Cardinality(TouchesOf(k)) = Count(pages, k)
    /\ \A i \in TouchesOf(k) :
         /\ ParseURL(log[i].url).ok
         /\ ParseURL(log[i].url).host = ParseURL(baseURL).host
         /\ KeyOf(log[i].url) = k

\* An offsite URL whose key is in the table was met and skipped.
C4_Witness ==
  \E i \in 1..Len(log) :
    /\ log[i].kind = "OffsiteSkip"
    /\ KeyOf(log[i].url) \in Keys(pages)

(***************************************************************************)
(* C5: when the fetch of a newly met page fails, whatever the error, the   *)
(* step leaves the table as it is, with that page's key at the count 1 of  *)
(* its insertion; the call returns to its caller, whose pending links are  *)
(* untouched, and nothing propagates; the page is never expanded; and the  *)
(* run goes on to return.                                                  *)
(***************************************************************************)
FailedKeys == {log[i].key : i \in {j \in 1..Len(log) : log[j].kind = "FetchFailure"}}

C5_FetchFailureIsolated ==
  /\ [][(/\ status = "running" /\ Top.pc = "await"
         /\ ~(Len(stack') = Len(stack) /\ stack'[Len(stack)].pc = "loop"))
        => /\ pages' = pages
           /\ Count(pages, KeyOf(Top.currentURL)) = 1
           /\ stack' = SubSeq(stack, 1, Len(stack) - 1)
           /\ status' = IF Len(stack) = 1 THEN "returned" ELSE "running"]_vars
  /\ [](\A k \in FailedKeys : k \in Keys(pages) /\ ExpansionsOf(k) = 0)
  /\ (FailedKeys # {}) ~> (status = "returned")

\* A page's fetch failed, a sibling link after it was then inserted and
\* fetched, and the run returned with the failed page still at count 1.
C5_Witness ==
  /\ status = "returned"
  /\ \E i, j \in 1..Len(log) :
       /\ i < j
       /\ log[i].kind = "FetchFailure" /\ log[i].key # KeyOf(baseURL)
       /\ log[j].kind = "FetchSuccess" /\ log[j].key # KeyOf(baseURL)
       /\ Count(pages, log[i].key) = 1

(***************************************************************************)
(* C6: a run fails only on a malformed URL: the seed, or the URL a call is *)
(* about to normalize.  With a well-formed seed no fetch failure, non-HTML *)
(* response or unresolvable href makes the run fail.                       *)
(***************************************************************************)
C6_OnlyMalformedURLFails ==
  /\ status = "threw" => log # <<>> /\ ~ParseURL(log[Len(log)].url).ok
  /\ ParseURL(baseURL).ok => status # "threw"

\* A run with a well-formed seed has returned after a failed fetch and
\* after extracting links from a document with an unresolvable href.
C6_Witness ==
  /\ ParseURL(baseURL).ok
  /\ status = "returned"
  /\ \E i \in 1..Len(log) : log[i].kind = "FetchFailure"
  /\ \E i \in 1..Len(log) :
       /\ log[i].kind = "FetchSuccess"
       /\ \E m \in 1..Len(log[i].html) :
            /\ log[i].html[m].hasHref
            /\ ~ResolveURL(log[i].html[m].href, baseURL).ok

(***************************************************************************)
(* C7: normalize keeps the query string in the key, so two URLs with the   *)
(* same host and path and different query strings get different keys.      *)
(* As stated this fails: C7_QueryKept.  What holds: the query string is    *)
(* dropped, and such URLs get the same key (C7_QueryDropped).              *)
(***************************************************************************)
Queries == {<<>>, N_QUERY_1, N_QUERY_2}

WithQuery(q) == Compose([nIn EXCEPT !.query = q])

C7_QueryKept ==
  (nOut.ran /\ nOut.ok) =>
    \A q \in Queries \ {nIn.query} : normalizeURL(WithQuery(q)).key # nOut.key

C7_QueryDropped ==
  (nOut.ran /\ nOut.ok) =>
    /\ "?" \notin Range(nOut.key)
    /\ \A q \in Queries :
         normalizeURL(WithQuery(q)).ok /\ normalizeURL(WithQuery(q)).key = nOut.key

\* "https://example.com/p?a=1" was normalized, to "example.com/p".
C7_Witness ==
  /\ nOut.ran /\ nOut.ok
  /\ Compose(nIn) = N_HTTPS \o N_HOST_LOWER \o N_PATH_P \o N_QUERY_1
  /\ nOut.key = N_HOST_LOWER \o N_PATH_P

LetterCases(p) ==
  {v \in [scheme : {p.scheme}, www : {N_WWW_LOWER, N_WWW_UPPER}, nWww : {p.nWww},
          host : {N_HOST_LOWER, N_HOST_MIXED},
          path : {p.path, toLowerCase(p.path), N_PATH_MIXED},
          nSlash : {p.nSlash}, query : {p.query}] :
     /\ toLowerCase(v.path) = toLowerCase(p.path)
     /\ v.nWww = 0 => v.www = p.www}

\* The URLs the claim as stated makes equal to the input: any scheme or
\* none, one "www." label more or fewer, one trailing slash more or fewer.
VariantsAsStated(p) ==
  {[v EXCEPT !.scheme = s, !.nWww = w, !.nSlash = n] :
     v \in LetterCases(p), s \in {<<>>, N_HTTP, N_HTTPS},
     w \in {p.nWww, p.nWww + 1} \cup (IF p.nWww > 0 THEN {p.nWww - 1} ELSE {}),
     n \in {p.nSlash, p.nSlash + 1} \cup (IF p.nSlash > 0 THEN {p.nSlash - 1} ELSE {})}

\* The same, with a scheme, and adding or removing only the first "www."
\* label and the first trailing slash.
VariantsWithScheme(p) ==
  {[v EXCEPT !.scheme = s, !.nWww = w, !.nSlash = n] :
     v \in LetterCases(p), s \in {N_HTTP, N_HTTPS},
     w \in IF p.nWww <= 1 THEN {0, 1} ELSE {p.nWww},
     n \in IF p.nSlash <= 1 THEN {0, 1} ELSE {p.nSlash}}

LexLess(a, b) ==
  \E n \in 0..Len(a) :
    /\ n <= Len(b)
    /\ SubSeq(a, 1, n) = SubSeq(b, 1, n)
    /\ \/ (n = Len(a) /\ n < Len(b))
       \/ (n < Len(a) /\ n < Len(b) /\ Rank(a[n + 1]) < Rank(b[n + 1]))

\* The tables with the entries of tbl in another order.
Reorderings(tbl) ==
  {[i \in 1..Len(tbl) |-> tbl[f[i]]] :
     f \in {g \in [1..Len(tbl) -> 1..Len(tbl)] :
              \A i, j \in 1..Len(tbl) : i # j => g[i] # g[j]}}

C10_SortedReport ==
  sSorted.done =>
    LET out == sSorted.out
    IN /\ Len(out) = Len(sPages)
       /\ Range(out) = Range(sPages)
       /\ \A i, j \in 1..Len(out) :
            i < j => \/ out[i].count > out[j].count
                     \/ (out[i].count = out[j].count /\ LexLess(out[i].url, out[j].url))
       /\ \A tbl \in Reorderings(sPages) : sortPages(tbl) = out

\* The table {b: 2, a: 2} was sorted: a comes before b.
C10_Witness ==
  /\ sSorted.done
  /\ sPages = <<[url |-> K_B, count |-> 2], [url |-> K_A, count |-> 2]>>
  /\ sSorted.out = <<[url |-> K_A, count |-> 2], [url |-> K_B, count |-> 2]>>

(***************************************************************************)
(* C11: fetch(url) settles in exactly one of four ways: NetworkError,      *)
(* HTTPStatusError (status >= 400), UnsupportedContentTypeError (no        *)
(* content-type or not HTML, body never read), or the full body text; no   *)
(* failure is of another kind.  As stated this fails: C11_ThreeErrorKinds. *)
(* What holds (C11_FetchOutcomes): there is a fifth way, the read of the   *)
(* body failing, whose error is of none of the three kinds; and a          *)
(* content-type is HTML when it contains "text/html" in lower case.        *)
(***************************************************************************)
ErrorKinds == {"Got Network error", "Got HTTP error", "Got non-HTML response"}

\* The content-type headers of the inputs that contain "text/html".
HtmlContentTypes == {CT_HTML, CT_HTML_PLAIN}

C11_ThreeErrorKinds ==
  fOut.ran =>
    \/ fOut.ok /\ fRes.netOk /\ fOut.html = fRes.body
    \/ ~fOut.ok /\ fOut.err \in ErrorKinds

C11_FetchOutcomes ==
  fOut.ran =>
    /\ ~fRes.netOk
         => ~fOut.ok /\ fOut.err = "Got Network error" /\ ~fOut.bodyRead
    /\ (fRes.netOk /\ fRes.status >= 400)
         => /\ ~fOut.ok /\ fOut.err = "Got HTTP error" /\ ~fOut.bodyRead
            /\ fOut.status = fRes.status
    /\ (fRes.netOk /\ fRes.status < 400
          /\ ~(fRes.hasContentType /\ fRes.contentType \in HtmlContentTypes))
         => ~fOut.ok /\ fOut.err = "Got non-HTML response" /\ ~fOut.bodyRead
    /\ (fRes.netOk /\ fRes.status < 400
          /\ fRes.hasContentType /\ fRes.contentType \in HtmlContentTypes)
         => /\ fOut.bodyRead
            /\ fRes.bodyOk => fOut.ok /\ fOut.html = fRes.body
            /\ ~fRes.bodyOk => ~fOut.ok /\ fOut.err \notin ErrorKinds

\* A 200 text/html response whose body could not be read has settled
\* fetchHTML with an error of none of the three kinds.
C11_Witness ==
  /\ fOut.ran /\ ~fOut.ok /\ fOut.bodyRead
  /\ fRes.netOk /\ fRes.status = 200 /\ fRes.contentType = CT_HTML /\ ~fRes.bodyOk
  /\ fOut.err \notin ErrorKinds

(***************************************************************************)
(* C12: for every document and base, getURLsFromHTML returns a sequence    *)
(* (possibly empty) that holds, in document order and with duplicates,     *)
(* exactly the resolved absolute URL of each anchor whose href resolves    *)
(* against the base; an anchor whose href does not resolve is dropped      *)
(* alone.                                                                  *)
(***************************************************************************)
\* The positions in the document of the anchors whose href resolves.
Resolvable ==
  {i \in 1..Len(xHtml) :
     /\ xHtml[i].tag = "a" /\ xHtml[i].hasHref
     /\ ResolveURL(xHtml[i].href, xBase).ok}

C12_ExtractedLinks ==
  xOut.done =>
    /\ Len(xOut.urls) = Cardinality(Resolvable)
    /\ \A i \in Resolvable :
         xOut.urls[Cardinality({j \in Resolvable : j <= i})]
           = href(ResolveURL(xHtml[i].href, xBase))

\* A document with a resolvable anchor twice and an unresolvable one in
\* between was extracted: the two came out, in order, the third did not.
C12_Witness ==
  /\ xOut.done
  /\ xBase = BASE_NESTED
  /\ xHtml = <<Anchor(H_B), Anchor(H_UNRESOLVABLE), Anchor(H_B)>>
  /\ Len(xOut.urls) = 2 /\ xOut.urls[1] = xOut.urls[2]
  /\ xOut.urls[1] = <<"h","t","t","p",":","/","/","a",".","i","o","/","x","/","b">>

(***************************************************************************)
(* C13: a new page's key is inserted with count 1 strictly before its      *)
(* fetch starts.  So while a call is about to fetch, fetching, or looping  *)
(* over its page's links, its key is in the table; every fetch start comes *)
(* right after the insertion of its key; and a call for a URL whose key    *)
(* belongs to a page in progress takes the AlreadyVisited branch.          *)
(***************************************************************************)
\* The keys of the calls that are past their insertion: pages in progress.
InProgress ==
  {KeyOf(stack[i].currentURL) :
     i \in {j \in 1..Len(stack) : stack[j].pc \in {"fetch", "await", "loop"}}}

C13_InsertBeforeFetch ==
  /\ [](/\ \A k \in InProgress : k \in Keys(pages) /\ Count(pages, k) >= 1
        /\ \A i \in 1..Len(log) :
             log[i].kind = "StartFetch"
               => i > 1 /\ log[i - 1].kind = "InsertNew" /\ log[i - 1].key = log[i].key)
  /\ [][(/\ Pending
         /\ OnSite(Top.currentURL)
         /\ KeyOf(Top.currentURL) \in InProgress)
        => /\ pages' = Increment(pages, KeyOf(Top.currentURL))
           /\ stack' = SubSeq(stack, 1, Len(stack) - 1)
           /\ log'[Len(log')].kind = "AlreadyVisited"]_vars

\* A link back to a page whose links are being looped over has just been
\* met: it took the AlreadyVisited branch, and the page is not fetched again.
C13_Witness ==
  /\ status = "running" /\ log # <<>>
  /\ log[Len(log)].kind = "AlreadyVisited"
  /\ log[Len(log)].key \in InProgress
  /\ FetchesOf(log[Len(log)].key) = 1

(***************************************************************************)
(* C14: a call whose URL's host name differs from the seed's, compared     *)
(* without folding "www." away, is an OffsiteSkip: it returns at once,     *)
(* the table is unchanged, nothing is fetched and nothing recursed into.   *)
(* So fetchHTML is only ever called on URLs with the seed's host name.     *)
(***************************************************************************)
Offsite(u) ==
  /\ ParseURL(u).ok /\ ParseURL(baseURL).ok
  /\ hostname(ParseURL(u)) # hostname(ParseURL(baseURL))

C14_OffsiteSkip ==
  /\ [][(Pending /\ Offsite(Top.currentURL))
        => /\ pages' = pages
           /\ stack' = SubSeq(stack, 1, Len(stack) - 1)
           /\ log' = Append(log, log'[Len(log')])
           /\ log'[Len(log')].kind = "OffsiteSkip"]_vars
  /\ [](\A i \in 1..Len(log) :
          /\ log[i].kind \in {"InsertNew", "StartFetch", "FetchSuccess", "FetchFailure"}
               => ~Offsite(log[i].url)
                  /\ hostname(ParseURL(log[i].url)) = hostname(ParseURL(baseURL))
          /\ log[i].kind = "OffsiteSkip" => Offsite(log[i].url))

\* Under the seed https://www.a.io/ the link http://a.io/, which has the
\* seed's key, has just been skipped as offsite, and was never fetched.
C14_Witness ==
  /\ baseURL = SEED_WWW /\ log # <<>>
  /\ log[Len(log)].kind = "OffsiteSkip"
  /\ log[Len(log)].url = H_SEED
  /\ KeyOf(H_SEED) = KeyOf(baseURL)
  /\ \A i \in 1..Len(log) : log[i].kind = "StartFetch" => log[i].url # H_SEED

(***************************************************************************)
(* C15: the traversal is sequential and depth-first in anchor order.  At   *)
(* most one fetch is in flight, and it settles before anything else        *)
(* happens; only the innermost call acts, every other call waits in its    *)
(* loop for the call of the link before its index; the links of a page are *)
(* called in their order, each after the whole subtree of the one before   *)
(* has returned; and every call works on the one table.                    *)
(***************************************************************************)
ReturnKinds == {"OffsiteSkip", "AlreadyVisited", "FetchFailure", "Return"}

\* The number of calls that are open after the first n events of the log.
DepthAfter ==
  [n \in 0..Len(log) |->
     1 + Cardinality({i \in 1..n : log[i].kind = "Recurse"})
       - Cardinality({i \in 1..n : log[i].kind \in ReturnKinds})]

\* The events at which the call that extracted links at event a called
\* one of them: made at that call's depth, before it returned.
RecursesOf(a, depth) ==
  {b \in (a + 1)..Len(log) :
     /\ log[b].kind = "Recurse"
     /\ depth[b - 1] = depth[a]
     /\ \A c \in a..b : depth[c] >= depth[a]}

C15_SequentialDepthFirst ==
  /\ [](status = "running" =>
          /\ \A j \in 1..(Len(stack) - 1) :
               /\ stack[j].pc = "loop"
               /\ stack[j].i >= 2
               /\ stack[j + 1].currentURL = stack[j].nextURLs[stack[j].i - 1]
          /\ \A i \in 1..(Len(log) - 1) :
               log[i].kind = "StartFetch"
                 => /\ log[i + 1].kind \in {"FetchSuccess", "FetchFailure"}
                    /\ log[i + 1].url = log[i].url
          /\ Let(DepthAfter, LAMBDA depth :
               /\ depth[Len(log)] = Len(stack)
               /\ \A a \in {e \in 1..Len(log) : log[e].kind = "FetchSuccess"} :
                    \A b \in RecursesOf(a, depth) :
                      LET k == Cardinality({r \in RecursesOf(a, depth) : r <= b})
                      IN k <= Len(log[a].links) /\ log[b].url = log[a].links[k]))
  /\ [][status' = "running" =>
          /\ SubSeq(stack', 1, Len(stack) - 1) = SubSeq(stack, 1, Len(stack) - 1)
          /\ Len(stack') > Len(stack) => pages' = pages]_vars

\* The second link of the seed's page is being called: the first link's
\* page was fetched and its own link was crawled and returned before.
C15_Witness ==
  /\ status = "running" /\ Len(stack) = 2 /\ Len(log) > 2
  /\ log[Len(log)].kind = "Recurse"
  /\ stack[1].i = 3
  /\ \E a, b \in 1..Len(log) :
       /\ a < b
       /\ log[a].kind = "FetchSuccess" /\ log[a].url = stack[1].nextURLs[1]
       /\ log[a].links # <<>>
       /\ log[b].kind = "Return" /\ log[b].url = stack[1].nextURLs[1]

(***************************************************************************)
(* C16: at every depth the links of a fetched page are resolved against    *)
(* the seed URL, never against the page's own URL; the base is the same    *)
(* seed in every call of a run.                                            *)
(***************************************************************************)
\* The hrefs of document html that resolve against base, resolved, in order.
ResolvedAgainst(html, base) ==
  LET Resolves(e) == e.tag = "a" /\ e.hasHref /\ ResolveURL(e.href, base).ok
      anchors == SelectSeq(html, Resolves)
  IN [i \in 1..Len(anchors) |-> href(ResolveURL(anchors[i].href, base))]

C16_BaseIsSeed ==
  /\ [][baseURL' = baseURL]_vars
  /\ [](\A i \in 1..Len(log) :
          log[i].kind = "FetchSuccess"
            => log[i].links = ResolvedAgainst(log[i].html, baseURL))

\* A page other than the seed's was fetched whose links resolve differently
\* against its own URL: the links extracted are the ones against the seed.
C16_Witness ==
  \E i \in 1..Len(log) :
    /\ log[i].kind = "FetchSuccess"
    /\ log[i].url # baseURL
    /\ log[i].links # <<>>
    /\ log[i].links = ResolvedAgainst(log[i].html, baseURL)
    /\ log[i].links # ResolvedAgainst(log[i].html, log[i].url)

(***************************************************************************)
(* C17: conservation of counts.  At every point the counts of the table    *)
(* add up to the number of calls so far that passed the same-host check:   *)
(* each adds exactly 1 to exactly one key, and no other step changes the   *)
(* table.  When the run has returned the sum is 1, for the seed, plus the  *)
(* number of same-host links extracted from the fetched pages.             *)
(***************************************************************************)
RECURSIVE SumCounts(_)
SumCounts(pgs) ==
  IF pgs = <<>> THEN 0 ELSE pgs[1].count + SumCounts(SubSeq(pgs, 2, Len(pgs)))

SameHostCalls == {i \in 1..Len(Processed) : OnSite(Processed[i])}

SameHostLinks ==
  {o \in LinkOccurrences : OnSite(log[o[1]].links[o[2]])}

C17_ConservationOfCounts ==
  /\ [](/\ SumCounts(pages) = Cardinality(SameHostCalls)
        /\ status = "returned"
             => SumCounts(pages) = 1 + Cardinality(SameHostLinks))
  /\ [][pages' # pages =>
          /\ Pending /\ OnSite(Top.currentURL)
          /\ \E k \in Keys(pages') :
               /\ Count(pages', k) = Count(pages, k) + 1
               /\ \A other \in Keys(pages') \ {k} :
                    other \in Keys(pages) /\ Count(pages', other) = Count(pages, other)]_vars

\* A run has returned after same-host links to new and to visited pages,
\* an offsite link and a failed fetch: the counts add up to 5 or more.
C17_Witness ==
  /\ status = "returned"
  /\ SumCounts(pages) >= 5
  /\ SumCounts(pages) = 1 + Cardinality(SameHostLinks)
  /\ Cardinality(SameHostLinks) < Cardinality(LinkOccurrences)
  /\ \E i \in 1..Len(log) : log[i].kind = "AlreadyVisited"
  /\ \E i \in 1..Len(log) : log[i].kind = "FetchFailure"

(***************************************************************************)
(* C18: the table only grows.  Every count in it is an integer of at       *)
(* least 1; no step removes a key or lowers a count; and once the first    *)
(* step of a run with a well-formed seed is made, the seed's key is in the *)
(* table.                                                                  *)
(***************************************************************************)
C18_TableOnlyGrows ==
  /\ [](/\ \A i \in 1..Len(pages) : pages[i].count \in Nat /\ pages[i].count >= 1
        /\ \A i, j \in 1..Len(pages) : i # j => pages[i].url # pages[j].url
        /\ (ParseURL(baseURL).ok /\ log # <<>>) => KeyOf(baseURL) \in Keys(pages))
  /\ [][\A k \in Keys(pages) :
          k \in Keys(pages') /\ Count(pages', k) >= Count(pages, k)]_vars

\* A run has returned with three keys or more, one of them counted three
\* times or more, the seed's among them.
C18_Witness ==
  /\ status = "returned"
  /\ Len(pages) >= 3
  /\ \E i \in 1..Len(pages) : pages[i].count >= 3
  /\ KeyOf(baseURL) \in Keys(pages)

(***************************************************************************)
(* C19: first variant wins.  Of the same-host URLs met in a run that       *)
(* normalize to one key, only the one met first, in depth-first            *)
(* left-to-right order, is ever fetched; no other variant is fetched or    *)
(* has its links explored, whether the first one's fetch succeeded or not. *)
(***************************************************************************)
\* The same-host URLs met so far, in call order, each with its key.
MetOnSite ==
  LET on == SelectSeq(Processed, LAMBDA u : OnSite(u))
  IN [i \in 1..Len(on) |-> [url |-> on[i], key |-> KeyOf(on[i])]]

\* The URL of the first same-host call whose URL normalizes to key k.
FirstVariant(met, k) ==
  met[CHOOSE i \in 1..Len(met) :
        met[i].key = k /\ \A j \in 1..(i - 1) : met[j].key # k].url

\* The distinct same-host URLs met so far that normalize to key k.
VariantsOf(met, k) == {met[i].url : i \in {j \in 1..Len(met) : met[j].key = k}}

C19_FirstVariantWins ==
  Let(MetOnSite, LAMBDA met :
    \A i \in 1..Len(log) :
      log[i].kind \in {"StartFetch", "FetchSuccess", "FetchFailure"}
        => /\ \E m \in 1..Len(met) : met[m].url = log[i].url
           /\ Let(KeyOf(log[i].url), LAMBDA k :
                /\ log[i].url = FirstVariant(met, k)
                /\ \A v \in VariantsOf(met, k) \ {log[i].url} :
                     \A j \in 1..Len(log) :
                       log[j].url = v => log[j].kind \in {"Recurse", "AlreadyVisited"}))

\* Two different URLs with one key were met; the fetch of the first failed,
\* the second was counted and never fetched, and the run has returned.
C19_Witness ==
  /\ status = "returned"
  /\ \E i, j \in 1..Len(log) :
       /\ i < j
       /\ log[i].kind = "FetchFailure"
       /\ log[j].kind = "AlreadyVisited"
       /\ log[j].key = log[i].key
       /\ log[j].url # log[i].url
       /\ FetchesOf(log[i].key) = 1
       /\ Count(pages, log[i].key) >= 2

====
